---- MODULE Spec2Model ----
(***************************************************************************)
(* Model of the serial-plotter examples of the repository: the rolling     *)
(* two-channel sample buffer (Line1 / Line2), the WOG line parser and the  *)
(* projection of the buffer onto the drawing area, in five variants:       *)
(*   tk02  02_graph_tkinter      fixed range, polling read_serial          *)
(*   tk04  04_roundtrip_tkinter  autoscale, cached canvas size             *)
(*   tk05  05_threads_tkinter    worker thread + queue + periodicCall      *)
(*   qt05  05_threads_pyqt5      QThread worker + MainWindow               *)
(*   gw06  06_creator_pyqt5      QThread worker + GraphWidget              *)
(*                                                                         *)
(* Input.  Lines are the fields of a line after decode, strip and split;   *)
(* a line with a byte above 0x7F is one on which decode('ascii') raises.   *)
(*                                                                         *)
(* Specifications: Spec, the five programs fed with lines and resize       *)
(* events while they run; SpecLive, the same under an event loop that      *)
(* keeps running; SpecProject, one projection of an arbitrary window on an *)
(* arbitrary canvas size; SpecControl, the buttons, the flags and the      *)
(* shutdown of the programs that have them; SpecOpen, open_serial as a     *)
(* function of the command line and of the ports that open.                *)
(*                                                                         *)
(* Numbers.  Sample values and scales are reals in the code; here a real r *)
(* is the integer r * Unit, so that epsilon = 1e-5 is the integer Eps = 1. *)
(* Screen coordinates are exact rationals <<num, den>> with den > 0.       *)
(***************************************************************************)
EXTENDS Integers, Sequences, FiniteSets, TLC

VARIABLES
    variant,           \* which example program runs
    Line1, Line2,      \* the two channels of the buffer
    max_all,           \* gw06: GraphWidget.max_all (cached scale)
    width, height,     \* current size of the drawing area
    canvasWidth,       \* tk04/tk05: cached canvas width
    canvasHalfHeight,  \* tk04/tk05: cached canvas height / 2 (rational)
    idleReplots,       \* tk: number of after_idle(replot) callbacks posted
    updatePending,     \* gw06: update() posted, paintEvent not yet run
    queue,             \* tk05: queue.Queue of raw lines
    pending,           \* qt05/gw06: result(x, y) signals queued to the GUI
    guiPc,             \* tk05: "idle" or "processIncoming"
    coordsX, coordsY,  \* the polylines last drawn, as sequences of <<x, y>>
    used_max_all,      \* the scale the last render divided by
    used_hh,           \* the half height the last render used (rational)
    fallbackTaken,     \* gw06: scale_values took its data_range == 0 branch
    reads,             \* number of lines read from the serial port
    appended,          \* history: the (x, y) of every completed append
    torn,              \* history: an append raised after it had changed Line1
    lastOp,            \* history: the handler that ran last
    lastLine,          \* history: the line that handler processed
    lastXY,            \* history: the (x, y) that handler appended
    polling,           \* tk02/tk04: an after(10, read_serial) timer is pending
    periodicArmed,     \* tk05: an after(200, periodicCall) timer is pending
    workerAlive,       \* tk05/qt05/gw06: the worker is still in its while loop
    framesRead,        \* history: the (x, y) of every valid frame read
    queueSeq,          \* history: tk05, the read number of each queued line
    taken,             \* history: tk05, the read numbers taken off the queue
    repeated,          \* history: the last render had the inputs of the one before
    running,           \* tk05: ThreadedClient.running
    is_running,        \* qt05/gw06: the worker's is_running flag
    remote_is_running, \* gw06: FakeThread.remote_is_running
    workerPc,          \* where the worker thread stands in its run() / workerThread1
    appPc,             \* where the GUI thread stands: "exec", "stopping", "quit"
    written,           \* the commands written to the serial port, oldest first
    presses,           \* history: the buttons pressed, oldest first
    sinceStop,         \* history: samples emitted since the last press (FakeThread),
                       \* lines put since running was cleared (tk05)
    args,              \* 06_creator: the command line
    openable,          \* 06_creator: the ports Serial() can open
    serialPort,        \* the handle open_serial returned, or "None"
    tried              \* history: the ports open_serial handed to Serial()

bufVars  == <<Line1, Line2, max_all>>
sizeVars == <<width, height, canvasWidth, canvasHalfHeight>>
drawVars == <<coordsX, coordsY, used_max_all, used_hh, fallbackTaken>>
schedVars == <<idleReplots, updatePending, queue, pending, guiPc>>
histVars == <<reads, appended, torn, lastOp, lastLine, lastXY>>
liveVars == <<polling, periodicArmed, workerAlive>>
ghostVars == <<framesRead, queueSeq, taken, repeated>>
ctlVars == <<running, is_running, remote_is_running, workerPc, appPc, written,
             presses, sinceStop>>
openVars == <<args, openable, serialPort, tried>>
vars == <<variant, bufVars, sizeVars, drawVars, schedVars, histVars, liveVars,
          ghostVars, ctlVars, openVars>>

(***************************************************************************)
(* Bounds of the model and constants of the program.                       *)
(***************************************************************************)
\* capacity of the buffer (the examples use 100)
npoints == 2
\* longest queue / signal backlog explored
MaxQueue == 2
\* most after_idle(replot) callbacks outstanding at once
MaxIdle == 1
\* lines read from the serial port in one run
MaxReads == npoints + 1

\* 1.0 in model units: one unit is 1e-5
Unit == 100000
\* the 1e-5 added to the extremes of each channel
Eps == 1
\* GraphWidget.default_data_range (10, in model units)
default_data_range == 10 * Unit
\* 02_graph: max_all = 200.0 and the +100 offset
FixedRange == 200 * Unit
FixedOffset == 100 * Unit
\* Tk reports 1 for the size of a widget that is not laid out yet
UnmappedSize == 1

Variants == {"tk02", "tk04", "tk05", "qt05", "gw06"}
TkVariants == {"tk02", "tk04", "tk05"}
CachedSizeVariants == {"tk04", "tk05"}
WorkerSignalVariants == {"qt05", "gw06"}
PollingVariants == {"tk02", "tk04"}
ThreadedVariants == {"tk05", "qt05", "gw06"}

\* sizes <<width, height>> the drawing area can take
CanvasSizes == {<<6, 4>>, <<9, 5>>}

(***************************************************************************)
(* Input lines, after decode('ascii').strip("\r\n") and split("\t").       *)
(***************************************************************************)
ValidLines ==
    { <<"WOG", "0.5", "-2.75">>,
      <<"WOG", "-2.75", "-1">>,
      <<"WOG", "0", "0">> }

WrongTagLines == { <<"LOG", "0.5", "-2.75">> }
ShortLines == { <<"WOG", "0.5">> }
BadField1Lines == { <<"WOG", "abc", "0.5">> }
BadField2Lines == { <<"WOG", "0.5", "abc">> }
MalformedLines == WrongTagLines \cup ShortLines \cup BadField1Lines \cup BadField2Lines
\* a line with a byte above 0x7F, here 0xB0, in its last field
NonAsciiLines == { <<"WOG", "0.5", "0xB0">> }
Lines == ValidLines \cup MalformedLines \cup NonAsciiLines

\* line.decode('ascii') returns; it raises UnicodeDecodeError otherwise
IsAscii(line) == \A i \in DOMAIN line : line[i] # "0xB0"

\* line[0:3] != "WOG": the tag is the first three characters of the line
HasTag(line) == line[1] \in {"WOG"}

\* the fields float(s) accepts; it raises ValueError on every other field
NumTokens == {"0.5", "-2.75", "-1", "0"}
IsFloat(s) == s \in NumTokens

\* float(s), in model units, for a field it accepts
PyFloat(s) ==
    CASE s = "0.5" -> 50000
      [] s = "-2.75" -> -275000
      [] s = "-1" -> -100000
      [] s = "0" -> 0

\* int(x) of a float x: truncation toward zero
PyInt(x) == IF x >= 0 THEN (x \div Unit) * Unit ELSE -(((-x) \div Unit) * Unit)

(***************************************************************************)
(* Sequences.                                                              *)
(***************************************************************************)
Zeros == [i \in 1..npoints |-> 0]

\* a slice that keeps the whole list
KeepAll(s, n) == s

\* s[-n:]
LastN(s, n) == IF Len(s) <= n THEN s ELSE SubSeq(s, Len(s) - n + 1, Len(s))

RECURSIVE SeqMax(_)
SeqMax(s) ==
    IF Len(s) = 1 THEN s[1]
    ELSE LET m == SeqMax(Tail(s)) IN IF s[1] >= m THEN s[1] ELSE m

RECURSIVE SeqMin(_)
SeqMin(s) ==
    IF Len(s) = 1 THEN s[1]
    ELSE LET m == SeqMin(Tail(s)) IN IF s[1] <= m THEN s[1] ELSE m

Max2(a, b) == IF a >= b THEN a ELSE b

(***************************************************************************)
(* The buffer: construction and the three append operations.  Each yields  *)
(* the channels it leaves behind; ok is FALSE when it raised.              *)
(***************************************************************************)
\* tk02/tk04/tk05 append_values(x, y), x and y being fields of the line:
\* Line1 is appended to and trimmed before float(y) is evaluated
append_values(L1, L2, x, y) ==
    IF ~IsFloat(x)
    THEN [Line1 |-> L1, Line2 |-> L2, ok |-> FALSE]
    ELSE LET a == LastN(Append(L1, PyFloat(x)), npoints) IN
         IF ~IsFloat(y)
         THEN [Line1 |-> a, Line2 |-> L2, ok |-> FALSE]
         ELSE [Line1 |-> a,
               Line2 |-> LastN(Append(L2, PyFloat(y)), npoints),
               ok |-> TRUE]

\* qt05 MainWindow.append_data(x, y), x and y floats: Line[1:] + [int(v)]
append_data(L1, L2, x, y) ==
    [Line1 |-> Append(Tail(L1), PyInt(x)),
     Line2 |-> Append(Tail(L2), PyInt(y)),
     ok |-> TRUE]

\* deque(maxlen = data_width).append(v)
DequeAppend(d, v) ==
    IF Len(d) >= npoints THEN Append(Tail(d), v) ELSE Append(d, v)

\* a rescale that forgets the 1e-5
MaxAllNoEps(L1, L2) ==
    Max2(Max2(SeqMax(L1), -SeqMin(L1)), Max2(SeqMax(L2), -SeqMin(L2)))

\* a rescale that looks at the maxima only
MaxAllNoMin(L1, L2) == Max2(SeqMax(L1) + Eps, SeqMax(L2) + Eps)

\* the rescale of add_value and of the autoscaling replots
MaxAll(L1, L2) ==
    LET max_X == SeqMax(L1) + Eps
        min_X == SeqMin(L1) - Eps
        max_Y == SeqMax(L2) + Eps
        min_Y == SeqMin(L2) - Eps
    IN Max2(Max2(max_X, -min_X), Max2(max_Y, -min_Y))

\* an add_value that rescales before it appends
add_value_stale(L1, L2, x, y) ==
    [Line1 |-> DequeAppend(L1, x), Line2 |-> DequeAppend(L2, y), ok |-> TRUE,
     max_all |-> Max2(Max2(SeqMax(L1) + Eps, -(SeqMin(L1) - Eps)),
                      Max2(SeqMax(L2) + Eps, -(SeqMin(L2) - Eps)))]

\* gw06 GraphWidget.add_value(x, y), x and y floats
add_value(L1, L2, x, y) ==
    LET a == DequeAppend(L1, x)
        b == DequeAppend(L2, y)
    IN [Line1 |-> a, Line2 |-> b, ok |-> TRUE, max_all |-> MaxAll(a, b)]

(***************************************************************************)
(* The projection.  A point is <<x, y>>, each coordinate a rational        *)
(* <<num, den>>.                                                           *)
(***************************************************************************)
\* round(p / q) for q > 0: Python rounds halves to the even neighbour
PyRound(p, q) ==
    LET f == p \div q
        r == p - f * q
    IN IF 2 * r < q THEN f
       ELSE IF 2 * r > q THEN f + 1
       ELSE IF f % 2 = 0 THEN f ELSE f + 1

\* a replot whose loop runs over range(1, npoints + 1)
ProjectFixedFromOne(L, w, h) ==
    [i \in 1..npoints |->
        << <<w * i, npoints>>,
           <<h * FixedRange - h * (L[i] + FixedOffset), FixedRange>> >>]

\* 02_graph replot: x = (w * n) / npoints, y = h - (h * (v + 100)) / 200
ProjectFixed(L, w, h) ==
    [i \in 1..npoints |->
        << <<w * (i - 1), npoints>>,
           <<h * FixedRange - h * (L[i] + FixedOffset), FixedRange>> >>]

\* a replot that forgets the "1 +" that moves zero to the centre line
ProjectTkNoOffset(L, w, hh, m) ==
    [i \in 1..npoints |->
        << <<w * (i - 1), npoints>>, <<hh[1] * L[i], hh[2] * m>> >>]

\* a replot that takes the sample index for x
ProjectTkIndexX(L, w, hh, m) ==
    [i \in 1..npoints |->
        << <<i - 1, 1>>, <<hh[1] * (m + L[i]), hh[2] * m>> >>]

\* 04_roundtrip / 05_threads_tkinter replot: y = hh * (1 + v / max_all)
ProjectTk(L, w, hh, m) ==
    [i \in 1..npoints |->
        << <<w * (i - 1), npoints>>,
           <<hh[1] * (m + L[i]), hh[2] * m>> >>]

\* 05_threads_pyqt5 update_plot_data: y = hh * (1 - v / max_all)
ProjectQt(L, w, hh, m) ==
    [i \in 1..npoints |->
        << <<w * (i - 1), npoints>>,
           <<hh[1] * (m - L[i]), hh[2] * m>> >>]

\* GraphWidget.scale_values: the data_range it divides by
DataRange(m) == IF m = 0 THEN default_data_range ELSE m

\* a scale_values whose loop runs over range(1, data_width)
scale_values_short(L, w, h, m) ==
    [i \in 1..(npoints - 1) |->
        << <<i * w, npoints>>,
           <<h - 2 * PyRound(L[i + 1] * h, 2 * DataRange(m)), 2>> >>]

\* GraphWidget.scale_values: y = height / 2 - round(v / data_range * height / 2)
scale_values(L, w, h, m) ==
    [i \in 1..npoints |->
        << <<(i - 1) * w, npoints>>,
           <<h - 2 * PyRound(L[i] * h, 2 * DataRange(m)), 2>> >>]

\* what a render draws and what it used, per variant, from the state it reads
Render(v, L1, L2, m, w, h, cw, chh) ==
    CASE v = "tk02" ->
            [X |-> ProjectFixed(L1, w, h), Y |-> ProjectFixed(L2, w, h),
             scale |-> FixedRange, hh |-> <<h, 2>>, fallback |-> FALSE]
      [] v \in CachedSizeVariants ->
            [X |-> ProjectTk(L1, cw, chh, MaxAll(L1, L2)),
             Y |-> ProjectTk(L2, cw, chh, MaxAll(L1, L2)),
             scale |-> MaxAll(L1, L2), hh |-> chh, fallback |-> FALSE]
      [] v = "qt05" ->
            [X |-> ProjectQt(L1, w, <<h \div 2, 1>>, MaxAll(L1, L2)),
             Y |-> ProjectQt(L2, w, <<h \div 2, 1>>, MaxAll(L1, L2)),
             scale |-> MaxAll(L1, L2), hh |-> <<h \div 2, 1>>, fallback |-> FALSE]
      [] v = "gw06" ->
            [X |-> scale_values(L1, w, h, m), Y |-> scale_values(L2, w, h, m),
             scale |-> DataRange(m), hh |-> <<h, 2>>, fallback |-> (m = 0)]

(***************************************************************************)
(* The state after construction.                                           *)
(***************************************************************************)
NoCoords == <<>>
NoLine == <<>>
NoXY == <<0, 0>>

InitTk ==
    /\ variant \in TkVariants
    /\ width = UnmappedSize /\ height = UnmappedSize
    /\ canvasWidth = UnmappedSize
    /\ canvasHalfHeight = <<UnmappedSize, 2>>
    /\ max_all = 0
    /\ updatePending = FALSE
    /\ coordsX = NoCoords /\ coordsY = NoCoords
    /\ used_max_all = 0 /\ used_hh = <<0, 1>>
    /\ lastOp = "init"

\* MainWindow.__init__ sizes the pixmap once and emits replot, which draws
InitQt ==
    /\ variant = "qt05"
    /\ \E size \in CanvasSizes : width = size[1] /\ height = size[2]
    /\ canvasWidth = 0 /\ canvasHalfHeight = <<0, 1>>
    /\ max_all = 0
    /\ updatePending = FALSE
    /\ LET r == Render("qt05", Zeros, Zeros, 0, width, height, 0, <<0, 1>>) IN
          /\ coordsX = r.X /\ coordsY = r.Y
          /\ used_max_all = r.scale /\ used_hh = r.hh
    /\ lastOp = "render"

\* GraphWidget.__init__; the window is shown, so a first paintEvent is due
InitGw ==
    /\ variant = "gw06"
    /\ \E size \in CanvasSizes : width = size[1] /\ height = size[2]
    /\ canvasWidth = 0 /\ canvasHalfHeight = <<0, 1>>
    /\ max_all = default_data_range
    /\ updatePending = TRUE
    /\ coordsX = NoCoords /\ coordsY = NoCoords
    /\ used_max_all = 0 /\ used_hh = <<0, 1>>
    /\ lastOp = "init"

\* the buffer, the canvas and the scheduler after construction
InitData ==
    /\ Line1 = Zeros /\ Line2 = Zeros
    /\ idleReplots = 0
    /\ queue = <<>> /\ pending = <<>>
    /\ guiPc = "idle"
    /\ fallbackTaken = FALSE
    /\ reads = 0
    /\ appended = <<>>
    /\ torn = FALSE
    /\ lastLine = NoLine
    /\ lastXY = NoXY
    /\ framesRead = <<>>
    /\ queueSeq = <<>> /\ taken = <<>>
    /\ repeated = FALSE
    /\ (InitTk \/ InitQt \/ InitGw)
    \* main() calls read_serial / periodicCall once and starts the worker
    /\ polling = (variant \in PollingVariants)
    /\ periodicArmed = (variant = "tk05")
    /\ workerAlive = (variant \in ThreadedVariants)

\* the device the examples name for the stm32 board, and open_serial's None
DefaultPort == "/dev/tty.usbmodem14103"
NoPort == "None"
\* the two commands the examples send to the board
StartCommand == "H\n"
StopCommand == "L\n"

\* the worker is in its loop and no button has been pressed;
\* GuiPart.__init__ of 05_threads_tkinter has sent its stop command
CtlRest ==
    /\ running = (variant = "tk05")
    /\ is_running = (variant \in WorkerSignalVariants)
    /\ remote_is_running = FALSE
    /\ workerPc = IF variant \in ThreadedVariants THEN "while" ELSE "none"
    /\ appPc = "exec"
    /\ written = IF variant = "tk05" THEN <<StopCommand>> ELSE <<>>
    /\ presses = <<>>
    /\ sinceStop = 0

\* main() has opened the port it names
OpenRest ==
    /\ args = <<"prog">>
    /\ openable = {DefaultPort}
    /\ serialPort = DefaultPort
    /\ tried = <<>>

Init == InitData /\ CtlRest /\ OpenRest

(***************************************************************************)
(* Rendering.                                                              *)
(***************************************************************************)
\* the handler that ran last was a render / an append
JustRendered == lastOp \in {"render", "append+render"}
JustAppended == lastOp \in {"append", "append+render"}

\* a render that keeps adding to the coordinate lists of the render before
DrawAccumulating(L1, L2, m, w, h, cw, chh) ==
    LET r == Render(variant, L1, L2, m, w, h, cw, chh) IN
        /\ coordsX' = coordsX \o r.X
        /\ coordsY' = coordsY \o r.Y
        /\ used_max_all' = r.scale
        /\ used_hh' = r.hh
        /\ fallbackTaken' = (fallbackTaken \/ r.fallback)

\* run a render on the state (L1, L2, m, w, h, cw, chh) and keep what it drew
Draw(L1, L2, m, w, h, cw, chh) ==
    LET r == Render(variant, L1, L2, m, w, h, cw, chh) IN
        /\ coordsX' = r.X
        /\ coordsY' = r.Y
        /\ used_max_all' = r.scale
        /\ used_hh' = r.hh
        /\ fallbackTaken' = (fallbackTaken \/ r.fallback)

\* a replot that sorts channel A in place to find its extremes
idle_replot_sorting ==
    /\ variant \in TkVariants
    /\ appPc = "exec"
    /\ guiPc = "idle"
    /\ idleReplots > 0
    /\ idleReplots' = idleReplots - 1
    /\ Draw(Line1, Line2, max_all, width, height, canvasWidth, canvasHalfHeight)
    /\ lastOp' = "render"
    /\ repeated' = JustRendered
    /\ Line1' = SortSeq(Line1, LAMBDA a, b : a < b)
    /\ UNCHANGED <<variant, ctlVars, openVars, Line2, max_all, sizeVars, updatePending, queue, pending,
                   guiPc, reads, appended, torn, lastLine, lastXY, liveVars,
                   framesRead, queueSeq, taken>>

\* tk: the idle callback posted by after_idle(self.replot)
idle_replot ==
    /\ variant \in TkVariants
    /\ appPc = "exec"
    /\ guiPc = "idle"
    /\ idleReplots > 0
    /\ idleReplots' = idleReplots - 1
    /\ Draw(Line1, Line2, max_all, width, height, canvasWidth, canvasHalfHeight)
    /\ lastOp' = "render"
    /\ repeated' = JustRendered
    /\ UNCHANGED <<variant, ctlVars, openVars, bufVars, sizeVars, updatePending, queue, pending, guiPc,
                   reads, appended, torn, lastLine, lastXY, liveVars,
                   framesRead, queueSeq, taken>>

\* an on_resize that replots without refreshing the cached size
on_resize_stale(size) ==
    /\ variant \in TkVariants
    /\ appPc = "exec"
    /\ guiPc = "idle"
    /\ <<width, height>> # size
    /\ width' = size[1] /\ height' = size[2]
    /\ UNCHANGED <<canvasWidth, canvasHalfHeight>>
    /\ Draw(Line1, Line2, max_all, width', height', canvasWidth', canvasHalfHeight')
    /\ lastOp' = "render"
    /\ repeated' = FALSE
    /\ UNCHANGED <<variant, ctlVars, openVars, bufVars, schedVars, reads, appended, torn, lastLine, lastXY,
                   liveVars, framesRead, queueSeq, taken>>

\* tk: the canvas gets a new size and on_resize runs: it refreshes the cached
\* size (tk04/tk05) and replots
on_resize(size) ==
    /\ variant \in TkVariants
    /\ appPc = "exec"
    /\ guiPc = "idle"
    /\ <<width, height>> # size
    /\ width' = size[1] /\ height' = size[2]
    /\ IF variant \in CachedSizeVariants
       THEN canvasWidth' = size[1] /\ canvasHalfHeight' = <<size[2], 2>>
       ELSE UNCHANGED <<canvasWidth, canvasHalfHeight>>
    /\ Draw(Line1, Line2, max_all, width', height', canvasWidth', canvasHalfHeight')
    /\ lastOp' = "render"
    /\ repeated' = FALSE
    /\ UNCHANGED <<variant, ctlVars, openVars, bufVars, schedVars, reads, appended, torn, lastLine, lastXY,
                   liveVars, framesRead, queueSeq, taken>>

\* gw06: the widget gets a new size; Qt posts a paint event
resizeEvent(size) ==
    /\ variant = "gw06"
    /\ <<width, height>> # size
    /\ width' = size[1] /\ height' = size[2]
    /\ updatePending' = TRUE
    /\ lastOp' = "resize"
    /\ repeated' = FALSE
    /\ UNCHANGED <<variant, ctlVars, openVars, bufVars, canvasWidth, canvasHalfHeight, drawVars,
                   idleReplots, queue, pending, guiPc, reads, appended, torn,
                   lastLine, lastXY, liveVars, framesRead, queueSeq, taken>>

\* gw06: Qt asks for a repaint of the widget (the window is exposed)
expose ==
    /\ variant = "gw06"
    /\ ~updatePending
    /\ updatePending' = TRUE
    /\ UNCHANGED <<variant, ctlVars, openVars, bufVars, sizeVars, drawVars, idleReplots, queue, pending,
                   guiPc, histVars, liveVars, ghostVars>>

\* gw06: GraphWidget.paintEvent draws both lines with scale_values
paintEvent ==
    /\ variant = "gw06"
    /\ updatePending
    /\ updatePending' = FALSE
    /\ Draw(Line1, Line2, max_all, width, height, canvasWidth, canvasHalfHeight)
    /\ lastOp' = "render"
    /\ repeated' = JustRendered
    /\ UNCHANGED <<variant, ctlVars, openVars, bufVars, sizeVars, idleReplots, queue, pending, guiPc,
                   reads, appended, torn, lastLine, lastXY, liveVars,
                   framesRead, queueSeq, taken>>

(***************************************************************************)
(* Parsing a line and appending, tkinter: the body shared by read_serial   *)
(* (tk02, tk04) and processIncoming (tk05).                                *)
(***************************************************************************)
\* the fields the tkinter parser hands to append_values, if it gets that far
ReachesAppend(line) == HasTag(line) /\ Len(line) >= 3

\* a valid frame: ASCII, tagged WOG, fields 1 and 2 parse as floats
IsValidFrame(line) ==
    /\ IsAscii(line) /\ HasTag(line) /\ Len(line) >= 3
    /\ IsFloat(line[2]) /\ IsFloat(line[3])

\* the valid frames read so far, with this line read
FramesWith(line) ==
    IF IsValidFrame(line)
    THEN Append(framesRead, <<PyFloat(line[2]), PyFloat(line[3])>>)
    ELSE framesRead

\* an append that posts no idle callback
after_idle_none(n) == n

\* after_idle(self.replot): one more callback for the next idle sweep.  The
\* callbacks of one sweep run back to back, so those beyond MaxIdle, which
\* would draw the same picture again, are left out
after_idle(n) == IF n < MaxIdle THEN n + 1 ELSE n

\* the tag check and the try block, for a line that decode('ascii') accepted
HandleLineTk(line) ==
    /\ lastLine' = line
    /\ repeated' = FALSE
    /\ IF ~ReachesAppend(line)
       THEN /\ lastOp' = "rejected"
            /\ UNCHANGED <<bufVars, idleReplots, appended, torn, lastXY>>
       ELSE LET r == append_values(Line1, Line2, line[2], line[3]) IN
            /\ Line1' = r.Line1
            /\ Line2' = r.Line2
            /\ UNCHANGED max_all
            /\ IF r.ok
               THEN /\ idleReplots' = after_idle(idleReplots)
                    /\ appended' = Append(appended, <<PyFloat(line[2]), PyFloat(line[3])>>)
                    /\ lastXY' = <<PyFloat(line[2]), PyFloat(line[3])>>
                    /\ lastOp' = "append"
                    /\ UNCHANGED torn
               ELSE /\ lastOp' = "raised"
                    /\ torn' = (torn \/ IsFloat(line[2]))
                    /\ UNCHANGED <<idleReplots, appended, lastXY>>

\* decode('ascii') raised UnicodeDecodeError: the handler is left at once
RaisedInDecode(line) ==
    /\ lastLine' = line
    /\ lastOp' = "crashed"
    /\ repeated' = FALSE
    /\ UNCHANGED <<bufVars, idleReplots, appended, torn, lastXY>>

\* tk02 / tk04 App.read_serial with a line waiting; after(10, read_serial) is
\* its last statement
read_serial(line) ==
    /\ variant \in PollingVariants
    /\ appPc = "exec"
    /\ polling
    /\ reads < MaxReads
    /\ reads' = reads + 1
    /\ framesRead' = FramesWith(line)
    /\ IF IsAscii(line)
       THEN HandleLineTk(line) /\ polling' = TRUE
       ELSE RaisedInDecode(line) /\ polling' = FALSE
    /\ UNCHANGED <<variant, ctlVars, openVars, sizeVars, drawVars, updatePending, queue, pending, guiPc,
                   periodicArmed, workerAlive, queueSeq, taken>>

\* queue.Queue.put(m)
queue_put(q, m) == Append(q, m)

\* a get that takes the newest message
queue_get_newest(q) == [msg |-> q[Len(q)], rest |-> SubSeq(q, 1, Len(q) - 1)]

\* queue.Queue.get(0) on a queue that is not empty
queue_get(q) == [msg |-> Head(q), rest |-> Tail(q)]

\* tk05 ThreadedClient.workerThread1: one turn of "while self.running" with
\* a line waiting: the line is read and put on the queue
workerThread1(line) ==
    /\ variant = "tk05"
    /\ workerPc = "while"
    /\ running
    /\ workerAlive
    /\ reads < MaxReads
    /\ Len(queue) < MaxQueue
    /\ reads' = reads + 1
    /\ framesRead' = FramesWith(line)
    /\ queue' = queue_put(queue, line)
    /\ queueSeq' = queue_put(queueSeq, reads + 1)
    /\ UNCHANGED <<variant, ctlVars, openVars, bufVars, sizeVars, drawVars, idleReplots, updatePending,
                   pending, guiPc, appended, torn, lastOp, lastLine, lastXY,
                   liveVars, taken, repeated>>

\* a periodicCall that re-arms its timer only once processIncoming returned
periodicCall_rearm_last ==
    /\ variant = "tk05"
    /\ appPc = "exec"
    /\ periodicArmed
    /\ guiPc = "idle"
    /\ periodicArmed' = FALSE
    /\ guiPc' = "processIncoming"
    /\ UNCHANGED <<variant, ctlVars, openVars, bufVars, sizeVars, drawVars, idleReplots, updatePending,
                   queue, pending, histVars, polling, workerAlive, ghostVars>>

\* tk05 ThreadedClient.periodicCall: the timer fires, after(200, periodicCall)
\* re-arms it, and GuiPart.processIncoming is entered
periodicCall ==
    /\ variant = "tk05"
    /\ appPc = "exec"
    /\ periodicArmed
    /\ guiPc = "idle"
    /\ periodicArmed' = TRUE
    /\ guiPc' = "processIncoming"
    /\ UNCHANGED <<variant, ctlVars, openVars, bufVars, sizeVars, drawVars, idleReplots, updatePending,
                   queue, pending, histVars, polling, workerAlive, ghostVars>>

\* tk05 GuiPart.processIncoming: one turn of its while loop; a message that
\* is not ASCII raises out of processIncoming and out of periodicCall
processIncoming ==
    /\ variant = "tk05"
    /\ guiPc = "processIncoming"
    /\ queue # <<>>
    /\ LET g == queue_get(queue)
           n == queue_get(queueSeq)
       IN /\ queue' = g.rest
          /\ queueSeq' = n.rest
          /\ taken' = Append(taken, n.msg)
          /\ IF IsAscii(g.msg)
             THEN HandleLineTk(g.msg) /\ UNCHANGED guiPc
             ELSE RaisedInDecode(g.msg) /\ guiPc' = "idle"
    /\ UNCHANGED <<variant, ctlVars, openVars, sizeVars, drawVars, updatePending, pending, reads,
                   liveVars, framesRead>>

\* tk05 GuiPart.processIncoming finds the queue empty and returns to
\* periodicCall: "if not self.running: sys.exit(1)"
processIncomingDone ==
    /\ variant = "tk05"
    /\ guiPc = "processIncoming"
    /\ queue = <<>>
    /\ guiPc' = "idle"
    /\ appPc' = IF running THEN appPc ELSE "quit"
    /\ UNCHANGED <<running, is_running, remote_is_running, workerPc, written, presses,
                   sinceStop>>
    /\ UNCHANGED <<variant, openVars, bufVars, sizeVars, drawVars, idleReplots, updatePending,
                   queue, pending, histVars, liveVars, ghostVars>>

(***************************************************************************)
(* The Qt worker and the slots its result signal is queued to.             *)
(***************************************************************************)
\* Thread.run emits result(x, y) for this line
Emits(line) == HasTag(line) /\ Len(line) >= 3 /\ IsFloat(line[2]) /\ IsFloat(line[3])

\* 06_creator main(): without a serial port the worker is a FakeThread
IsFake == variant = "gw06" /\ serialPort = NoPort

\* qt05 / gw06 Thread.run: one turn of "while self.is_running" with a line
\* waiting: the line is read, decoded, parsed and, if good, emitted; a line
\* that is not ASCII raises out of run()
Thread_run(line) ==
    /\ variant \in WorkerSignalVariants
    /\ ~IsFake
    /\ workerPc = "while"
    /\ is_running
    /\ workerAlive
    /\ reads < MaxReads
    /\ Len(pending) < MaxQueue
    /\ reads' = reads + 1
    /\ framesRead' = FramesWith(line)
    /\ lastLine' = line
    /\ workerAlive' = IsAscii(line)
    /\ pending' = IF IsAscii(line) /\ Emits(line)
                  THEN Append(pending, <<PyFloat(line[2]), PyFloat(line[3])>>)
                  ELSE pending
    /\ UNCHANGED <<variant, ctlVars, openVars, bufVars, sizeVars, drawVars, idleReplots, updatePending,
                   queue, guiPc, appended, torn, lastOp, lastXY, polling,
                   periodicArmed, queueSeq, taken, repeated>>

\* qt05 MainWindow.append_data, then update_plot_data through replot.emit()
append_data_slot ==
    /\ variant = "qt05"
    /\ appPc = "exec"
    /\ pending # <<>>
    /\ LET xy == Head(pending)
           r == append_data(Line1, Line2, xy[1], xy[2])
       IN /\ Line1' = r.Line1
          /\ Line2' = r.Line2
          /\ Draw(r.Line1, r.Line2, max_all, width, height, canvasWidth, canvasHalfHeight)
          /\ appended' = Append(appended, xy)
          /\ lastXY' = xy
    /\ pending' = Tail(pending)
    /\ lastOp' = "append+render"
    /\ repeated' = FALSE
    /\ UNCHANGED <<variant, ctlVars, openVars, max_all, sizeVars, idleReplots, updatePending, queue, guiPc,
                   reads, torn, lastLine, liveVars, framesRead, queueSeq, taken>>

\* gw06 GraphWidget.add_value
add_value_slot ==
    /\ variant = "gw06"
    /\ appPc = "exec"
    /\ pending # <<>>
    /\ LET xy == Head(pending)
           r == add_value(Line1, Line2, xy[1], xy[2])
       IN /\ Line1' = r.Line1
          /\ Line2' = r.Line2
          /\ max_all' = r.max_all
          /\ appended' = Append(appended, xy)
          /\ lastXY' = xy
    /\ pending' = Tail(pending)
    /\ updatePending' = TRUE
    /\ lastOp' = "append"
    /\ repeated' = FALSE
    /\ UNCHANGED <<variant, ctlVars, openVars, sizeVars, drawVars, idleReplots, queue, guiPc, reads, torn,
                   lastLine, liveVars, framesRead, queueSeq, taken>>

Next ==
    \/ \E line \in Lines : read_serial(line)
    \/ \E line \in Lines : workerThread1(line)
    \/ periodicCall
    \/ processIncoming
    \/ processIncomingDone
    \/ \E line \in Lines : Thread_run(line)
    \/ append_data_slot
    \/ add_value_slot
    \/ idle_replot
    \/ \E size \in CanvasSizes : on_resize(size)
    \/ \E size \in CanvasSizes : resizeEvent(size)
    \/ expose
    \/ paintEvent

Spec == Init /\ [][Next]_vars

TypeOK ==
    /\ variant \in Variants
    /\ Len(Line1) = npoints
    /\ reads \in 0..MaxReads
    /\ running \in BOOLEAN /\ is_running \in BOOLEAN /\ remote_is_running \in BOOLEAN
    /\ workerPc \in {"none", "start", "while", "body", "sleep", "emit", "done"}
    /\ appPc \in {"exec", "stopping", "quit"}

(***************************************************************************)
(* Vocabulary of the properties.                                           *)
(***************************************************************************)
AutoscalingVariants == {"tk04", "tk05", "qt05", "gw06"}
\* no append has been attempted on the buffer since construction
Fresh == appended = <<>> /\ ~torn
\* lines parsed so far (tk05 parses a line when it leaves the queue)
Parsed == reads - Len(queue)

Range(s) == {s[i] : i \in DOMAIN s}
SetMax(S) == CHOOSE m \in S : \A x \in S : x <= m
SetMin(S) == CHOOSE m \in S : \A x \in S : m <= x
Abs(x) == IF x < 0 THEN -x ELSE x
RECURSIVE Gcd(_, _)
Gcd(a, b) == IF b = 0 THEN a ELSE Gcd(b, a % b)
\* a rational in lowest terms
Lowest(r) ==
    LET g == Gcd(Abs(r[1]), Abs(r[2])) IN
        IF g = 0 THEN r ELSE <<r[1] \div g, r[2] \div g>>
RatEq(a, b) == Lowest(a) = Lowest(b)
RatLt(a, b) == a[1] * b[2] < b[1] * a[2]

\* the x values, and the y values, of the completed appends
AppendedX == [i \in 1..Len(appended) |-> appended[i][1]]
AppendedY == [i \in 1..Len(appended) |-> appended[i][2]]
\* the last n entries of s, by index arithmetic
Newest(s, n) == [i \in 1..n |-> s[Len(s) - n + i]]

(***************************************************************************)
(* C1  Fixed length: in every variant, after construction and after any    *)
(* sequence of appends, Line1 and Line2 hold exactly npoints entries.      *)
(***************************************************************************)
\* C1: both channels hold exactly npoints entries in every reachable state
C1_FixedLength == Len(Line1) = npoints /\ Len(Line2) = npoints

\* more samples have been appended than the buffer holds
C1_Witness ==
    /\ Len(appended) > npoints
    /\ Len(Line1) = npoints /\ Len(Line2) = npoints

(***************************************************************************)
(* C2  FIFO eviction: as long as every append succeeded, channel A is the  *)
(* last npoints entries of (npoints zeros, x1 .. xk) and channel B the     *)
(* last npoints entries of (npoints zeros, y1 .. yk), oldest first.        *)
(***************************************************************************)
\* C2: with no append torn, each channel is the newest npoints entries of
\* the zeros followed by the appended values, in arrival order
C2_FifoEviction ==
    ~torn =>
        /\ Line1 = Newest(Zeros \o AppendedX, npoints)
        /\ Line2 = Newest(Zeros \o AppendedY, npoints)

(***************************************************************************)
(* C3  Malformed frames never change the buffer: a step that parses a line *)
(* with a wrong tag, fewer than three fields or a non-numeric field 1 or 2 *)
(* leaves both channels as they were (and queues no sample for them).      *)
(***************************************************************************)
\* C3: a step that parses a malformed line changes neither channel
C3_MalformedIgnored ==
    [][(Parsed' = Parsed + 1 /\ lastLine' \in MalformedLines)
          => (Line1' = Line1 /\ Line2' = Line2 /\ pending' = pending)]_vars

(***************************************************************************)
(* C4  Samples are stored as-is: right after append(x, y) the newest entry *)
(* of channel A is x and the newest entry of channel B is y.               *)
(***************************************************************************)
\* C4: right after an append the newest entries are exactly x and y
C4_StoredAsIs ==
    JustAppended => (Line1[npoints] = lastXY[1] /\ Line2[npoints] = lastXY[2])

(***************************************************************************)
(* C5  Scale correctness, for every buffer content the autoscale has been  *)
(* computed from (every render of tk04, tk05 and qt05; every GraphWidget   *)
(* render that follows an add_value).  As claimed: the scale is            *)
(* max(|max A|, |min A|, |max B|, |min B|, epsilon).  As the code has it:  *)
(* max(|max A|, |min A|, |max B|, |min B|) + epsilon; for A = [-5, 3, 0],  *)
(* B = [1, -2, 4] that is 5 + epsilon.                                     *)
(***************************************************************************)
AbsExtreme(L1, L2) ==
    SetMax({Abs(SetMax(Range(L1))), Abs(SetMin(Range(L1))),
            Abs(SetMax(Range(L2))), Abs(SetMin(Range(L2)))})

ExampleA == <<-5 * Unit, 3 * Unit, 0>>
ExampleB == <<Unit, -2 * Unit, 4 * Unit>>

\* a render has just used a scale computed from the contents
AutoscaledRender ==
    /\ JustRendered /\ variant \in AutoscalingVariants
    /\ variant = "gw06" => appended # <<>>

\* C5 as claimed: the scale is max(|max A|, |min A|, |max B|, |min B|, epsilon)
C5_ScaleAsClaimed ==
    AutoscaledRender => used_max_all = SetMax({AbsExtreme(Line1, Line2), Eps})

\* C5 as the code has it: the scale is max(|max A|, |min A|, |max B|, |min B|)
\* + epsilon, and 5 + epsilon for the example window
C5_ScaleIsExtremePlusEps ==
    /\ AutoscaledRender => used_max_all = AbsExtreme(Line1, Line2) + Eps
    /\ MaxAll(ExampleA, ExampleB) = 5 * Unit + Eps

\* a render whose scale comes from a negative extreme of channel A
C5_Witness ==
    /\ JustRendered /\ variant \in AutoscalingVariants /\ appended # <<>>
    /\ SetMin(Range(Line1)) < 0
    /\ used_max_all = Eps - SetMin(Range(Line1))
    /\ used_max_all > Eps + SetMax(Range(Line2))

(***************************************************************************)
(* C6  Zero-division guard at startup.  As claimed: a render of the freshly *)
(* constructed buffer uses the scale epsilon in every variant, GraphWidget *)
(* included.  As the code has it: epsilon in tk04, tk05 and qt05,          *)
(* default_data_range (10) in GraphWidget, the fixed 200 in tk02.          *)
(***************************************************************************)
\* C6 as claimed: a render of the fresh buffer uses the scale epsilon in every
\* autoscaling variant, GraphWidget included
C6_FreshScaleIsEps ==
    (JustRendered /\ Fresh /\ variant \in AutoscalingVariants) => used_max_all = Eps

\* C6 as the code has it: a render of the fresh buffer uses epsilon in tk04,
\* tk05 and qt05, 10 in GraphWidget and 200 in tk02
C6_FreshScalePerVariant ==
    (JustRendered /\ Fresh) =>
        used_max_all = CASE variant = "gw06" -> 10 * Unit
                         [] variant = "tk02" -> 200 * Unit
                         [] OTHER -> Eps

\* GraphWidget paints the fresh buffer with its default range
C6_Witness ==
    /\ JustRendered /\ Fresh /\ variant = "gw06"
    /\ Line1 = Zeros /\ Line2 = Zeros
    /\ used_max_all = 10 * Unit

(***************************************************************************)
(* C7  The scale is never stale.  As claimed: whenever a render runs, its  *)
(* scale is the one the current contents give.  As the code has it: that   *)
(* holds for tk04, tk05 and qt05, and for GraphWidget from the first       *)
(* add_value on (its cached max_all then always matches the contents);     *)
(* before it GraphWidget uses default_data_range.                          *)
(***************************************************************************)
ScaleOfContents ==
    SetMax({Abs(Line1[i]) : i \in 1..Len(Line1)} \cup {Abs(Line2[i]) : i \in 1..Len(Line2)})
        + Eps

\* C7 as claimed: every render uses the scale its current contents give
C7_NeverStaleAsClaimed ==
    (JustRendered /\ variant \in AutoscalingVariants) => used_max_all = ScaleOfContents

\* C7 as the code has it: GraphWidget's max_all is the scale of the contents
\* from the first add_value on and 10 before it, a GraphWidget render uses
\* max_all, and tk04, tk05 and qt05 render with the scale of the contents
C7_NeverStaleAfterFirstAppend ==
    /\ (variant = "gw06" /\ appended # <<>>) => max_all = ScaleOfContents
    /\ (variant = "gw06" /\ appended = <<>>) => max_all = 10 * Unit
    /\ (JustRendered /\ variant = "gw06") => used_max_all = max_all
    /\ (JustRendered /\ variant \in {"tk04", "tk05", "qt05"})
          => used_max_all = ScaleOfContents

\* GraphWidget renders after the extreme sample has left the window
C7_Witness ==
    /\ JustRendered /\ variant = "gw06"
    /\ Len(appended) > npoints
    /\ \E i \in 1..(Len(appended) - npoints) :
          Abs(appended[i][1]) + Eps > used_max_all

C8_WitnessNegative ==
    /\ JustRendered /\ variant \in AutoscalingVariants
    /\ \A i \in 1..npoints : Line1[i] < 0 /\ Line2[i] < 0

(***************************************************************************)
(* C9  Positive-up projection: in tk04, tk05 and qt05 every point is at    *)
(* screenY = hh - hh * v / scale, so a positive sample is drawn above the  *)
(* centre line (screenY < hh) and a negative one below it (screenY > hh).  *)
(***************************************************************************)
PointsAbove(L, coords) ==
    \A i \in 1..npoints :
        /\ RatEq(coords[i][2],
                 <<used_hh[1] * (used_max_all - L[i]), used_hh[2] * used_max_all>>)
        /\ L[i] > 0 => RatLt(coords[i][2], used_hh)
        /\ L[i] < 0 => RatLt(used_hh, coords[i][2])

\* C9: after a render of tk04, tk05 or qt05 every point of both lines is at
\* hh - hh * v / scale, above the centre for v > 0 and below it for v < 0
C9_PositiveUp ==
    (JustRendered /\ variant \in {"tk04", "tk05", "qt05"})
        => (PointsAbove(Line1, coordsX) /\ PointsAbove(Line2, coordsY))

(***************************************************************************)
(* C10  Centre line.  As claimed: an all-zero buffer is drawn with every   *)
(* Y at exactly height / 2, odd heights included.  As the code has it:     *)
(* every Y is the half height the variant uses: height / 2 in tk02 and     *)
(* GraphWidget, the cached canvasHalfHeight in tk04 and tk05, and          *)
(* floor(height / 2) in qt05.                                              *)
(***************************************************************************)
AllY(coords, y) == \A i \in 1..npoints : RatEq(coords[i][2], y)
AllZero == Line1 = Zeros /\ Line2 = Zeros

\* C10 as claimed: an all-zero buffer is drawn at exactly height / 2 by qt05,
\* tk02 and GraphWidget, whatever the height
C10_CentreAsClaimed ==
    (JustRendered /\ AllZero /\ variant \in {"qt05", "tk02", "gw06"})
        => (AllY(coordsX, <<height, 2>>) /\ AllY(coordsY, <<height, 2>>))

HalfHeightOfVariant ==
    CASE variant \in {"tk02", "gw06"} -> <<height, 2>>
      [] variant \in {"tk04", "tk05"} -> canvasHalfHeight
      [] variant = "qt05" -> <<height \div 2, 1>>

\* C10 as the code has it: an all-zero buffer is drawn at the half height of
\* the variant: height / 2, the cached canvasHalfHeight, or floor(height / 2)
C10_CentrePerVariant ==
    (JustRendered /\ AllZero)
        => (AllY(coordsX, HalfHeightOfVariant) /\ AllY(coordsY, HalfHeightOfVariant))

\* qt05 draws an all-zero buffer on a canvas of odd height
C10_Witness ==
    /\ JustRendered /\ AllZero /\ variant = "qt05"
    /\ height % 2 = 1
    /\ AllY(coordsX, <<height - 1, 2>>)

(***************************************************************************)
(* C11  Monotonic X spacing: the X coordinates of a render are             *)
(* x_i = width * i / npoints for i = 0 .. npoints - 1: evenly spaced,      *)
(* strictly increasing, starting at 0 and staying below width.  The width  *)
(* is the one the render reads (the cached canvasWidth in tk04 and tk05).  *)
(***************************************************************************)
WidthOfVariant == IF variant \in CachedSizeVariants THEN canvasWidth ELSE width

RatSub(a, b) == <<a[1] * b[2] - b[1] * a[2], a[2] * b[2]>>

XSpacing(coords) ==
    /\ Len(coords) = npoints
    /\ \A i \in 1..npoints :
          RatEq(coords[i][1], <<WidthOfVariant * (i - 1), npoints>>)
    /\ RatEq(coords[1][1], <<0, 1>>)
    /\ \A i \in 1..(npoints - 1) :
          /\ RatLt(coords[i][1], coords[i + 1][1])
          /\ RatEq(RatSub(coords[i + 1][1], coords[i][1]), <<WidthOfVariant, npoints>>)
    /\ RatLt(coords[npoints][1], <<WidthOfVariant, 1>>)

\* C11: after a render the X coordinates of both lines are width * i / npoints,
\* i = 0 .. npoints - 1: evenly spaced, strictly increasing, from 0, below width
C11_XSpacing == JustRendered => (XSpacing(coordsX) /\ XSpacing(coordsY))

\* GraphWidget has drawn appended samples on a widget that is 9 wide
C11_Witness ==
    /\ JustRendered /\ variant = "gw06" /\ appended # <<>>
    /\ width = 9
    /\ RatLt(<<0, 1>>, coordsX[npoints][1])
    /\ RatLt(coordsX[npoints][1], <<9, 1>>)

C13_RenderKeepsBuffer ==
    [][/\ lastOp' = "render" => (Line1' = Line1 /\ Line2' = Line2 /\ max_all' = max_all)
       /\ (lastOp' = "append+render" /\ appended' # appended)
             => /\ Line1' = Append(Tail(Line1), PyInt(lastXY'[1]))
                /\ Line2' = Append(Tail(Line2), PyInt(lastXY'[2]))
                /\ max_all' = max_all]_vars

\* a render of a buffer that holds appended, non-zero samples has run
C13_Witness ==
    /\ lastOp = "render" /\ variant \in {"tk04", "gw06"}
    /\ appended # <<>> /\ Line1 # Zeros /\ Line2 # Zeros
    /\ Len(Line1) = npoints /\ Len(Line2) = npoints

(***************************************************************************)
(* C14  One append per decoded frame, in order (tk05, qt05, gw06): at      *)
(* every moment, under every interleaving of worker and GUI, the valid     *)
(* frames the worker has read are, in the order read, the samples already  *)
(* appended followed by the samples still on their way in the queue (tk05) *)
(* or in the queued result signals (qt05, gw06).                           *)
(***************************************************************************)
\* the samples of the valid frames in a queue of lines
ValidSamples(q) ==
    LET v == SelectSeq(q, IsValidFrame)
    IN [i \in 1..Len(v) |-> <<PyFloat(v[i][2]), PyFloat(v[i][3])>>]

\* the samples read by the worker that the GUI has not appended yet
InFlight == IF variant = "tk05" THEN ValidSamples(queue) ELSE pending

C15_RenderSeesWholeAppends ==
    (JustRendered /\ variant \in ThreadedVariants) => ~torn

(***************************************************************************)
(* C16  Projected frame size: every render yields, for each channel,       *)
(* npoints points, one <<x, y>> pair per buffered sample in buffer order:  *)
(* point i stands at the i-th x position and its y follows sample i.       *)
(***************************************************************************)
\* a < b, comparing numerators where the denominators agree
RatLess(a, b) ==
    IF a[2] = b[2] THEN a[1] < b[1]
    ELSE LET x == Lowest(a)
             y == Lowest(b)
         IN x[1] * y[2] < y[1] * x[2]

\* y grows downward with the sample in tk04 / tk05 and upward in the others
\* (GraphWidget rounds y, so there a smaller sample is drawn no higher)
FollowsSamples(L, coords) ==
    \A i, j \in 1..npoints :
        /\ L[i] = L[j] => RatEq(coords[i][2], coords[j][2])
        /\ L[i] < L[j] =>
              CASE variant \in CachedSizeVariants -> RatLess(coords[i][2], coords[j][2])
                [] variant = "gw06" -> ~RatLess(coords[i][2], coords[j][2])
                [] OTHER -> RatLess(coords[j][2], coords[i][2])

IsPoint(pt) ==
    /\ Len(pt) = 2
    /\ \A k \in 1..2 : Len(pt[k]) = 2 /\ pt[k][1] \in Int /\ pt[k][2] > 0

FrameOf(L, coords) ==
    /\ Len(coords) = npoints
    /\ \A i \in 1..npoints :
          /\ IsPoint(coords[i])
          /\ RatEq(coords[i][1], <<WidthOfVariant * (i - 1), npoints>>)
    /\ FollowsSamples(L, coords)

SampleValues == {PyFloat(t) : t \in NumTokens}
Windows == [1..npoints -> SampleValues]
\* MainWindow.append_data keeps int(v)
WindowsOf(v) == IF v = "qt05" THEN {[i \in 1..npoints |-> PyInt(w[i])] : w \in Windows}
                ELSE Windows

\* canvas widths and heights handed to the projection
ProjectWidths == {0, 6}
ProjectHeights == {0, 5}

InitProject ==
    /\ variant \in Variants
    /\ Line1 \in WindowsOf(variant) /\ Line2 \in WindowsOf(variant)
    /\ width \in ProjectWidths /\ height \in ProjectHeights
    /\ canvasWidth = IF variant \in CachedSizeVariants THEN width ELSE 0
    /\ canvasHalfHeight = IF variant \in CachedSizeVariants THEN <<height, 2>> ELSE <<0, 1>>
    /\ max_all = IF variant = "gw06" THEN MaxAll(Line1, Line2) ELSE 0
    /\ idleReplots = 0 /\ updatePending = FALSE
    /\ queue = <<>> /\ pending = <<>> /\ guiPc = "idle"
    /\ coordsX = NoCoords /\ coordsY = NoCoords
    /\ used_max_all = 0 /\ used_hh = <<0, 1>> /\ fallbackTaken = FALSE
    /\ reads = 0 /\ appended = <<>> /\ torn = FALSE
    /\ lastOp = "init" /\ lastLine = NoLine /\ lastXY = NoXY
    /\ polling = FALSE /\ periodicArmed = FALSE /\ workerAlive = FALSE
    /\ framesRead = <<>> /\ queueSeq = <<>> /\ taken = <<>> /\ repeated = FALSE
    /\ CtlRest /\ OpenRest

\* replot / update_plot_data / paintEvent on these inputs
project ==
    /\ lastOp = "init"
    /\ Draw(Line1, Line2, max_all, width, height, canvasWidth, canvasHalfHeight)
    /\ lastOp' = "render"
    /\ UNCHANGED <<variant, ctlVars, openVars, bufVars, sizeVars, schedVars, reads, appended, torn,
                   lastLine, lastXY, liveVars, ghostVars>>

NextProject == project

SpecProject == InitProject /\ [][NextProject]_vars

(***************************************************************************)
(* C17  Degenerate canvas: a render with width 0 and / or height 0         *)
(* completes (no division by zero) and yields npoints points per channel,  *)
(* every X being 0 when the width is 0 and every Y being 0 when the height *)
(* is 0.                                                                   *)
(***************************************************************************)
AllAt(coords, k, r) == \A i \in 1..Len(coords) : RatEq(coords[i][k], r)

\* C17: a render on a canvas of width 0 and / or height 0 yields npoints
\* well-defined points per line, with all X = 0 if width = 0 and all Y = 0 if
\* height = 0
C17_DegenerateCanvas ==
    JustRendered =>
        \A c \in {coordsX, coordsY} :
            /\ Len(c) = npoints
            /\ \A i \in 1..npoints : IsPoint(c[i])
            /\ width = 0 => AllAt(c, 1, <<0, 1>>)
            /\ height = 0 => AllAt(c, 2, <<0, 1>>)

\* a window that is not all zero has been drawn on a 0 x 0 canvas
C17_Witness ==
    /\ JustRendered /\ width = 0 /\ height = 0
    /\ variant = "tk04"
    /\ Line1 # Zeros /\ Line2 # Zeros
    /\ Len(coordsX) = npoints /\ AllAt(coordsX, 2, <<0, 1>>)

(***************************************************************************)
(* C18  Polling survives any input (tk02, tk04): read_serial re-schedules  *)
(* itself at the end of every invocation, whatever line it read, so the    *)
(* after(10, read_serial) timer is pending whenever read_serial is not     *)
(* running.                                                                *)
(***************************************************************************)
\* C18: in tk02 and tk04 read_serial is scheduled again after every line read
C18_PollingSurvives == variant \in PollingVariants => polling

(***************************************************************************)
(* C19  The Qt worker survives any input (qt05, gw06): Thread.run is still *)
(* in its reading loop after every line, whatever its content.             *)
(***************************************************************************)
\* C19: in qt05 and gw06 Thread.run keeps reading after every line read
C19_WorkerSurvives == variant \in WorkerSignalVariants => workerAlive

(***************************************************************************)
(* C20  periodicCall survives a raising processIncoming (tk05): the        *)
(* 200 ms timer is armed at all times, also right after processIncoming    *)
(* raised on a message; the messages behind that one stay in the queue in  *)
(* their order, every message read is taken off the queue exactly once and *)
(* in reading order, and while messages wait the GUI has a step to take:   *)
(* the armed periodicCall or the next turn of processIncoming.             *)
(***************************************************************************)
\* the read numbers 1 .. n in order
UpTo(n) == [i \in 1..n |-> i]

MaxPresses == 2

dataVars == <<variant, bufVars, sizeVars, drawVars, schedVars, histVars, liveVars,
              ghostVars>>

\* FakeThread: x and y are random.random() - 0.5
FakeSamples == {<<-(Unit \div 2), Unit \div 4>>}

\* the lines the board sends here: a frame, and a line that is not ASCII
ControlLines == {<<"WOG", "0.5", "-2.75">>} \cup NonAsciiLines

\* nothing but stop commands has been sent since the worker was created
RemoteStopped == presses = <<>> \/ presses[Len(presses)] # "START"

\* the programs with buttons and a serial port to write to
ControlVariants == {"tk04", "tk05", "qt05", "gw06"}

InitControl ==
    /\ InitData
    /\ variant \in ControlVariants
    /\ args = <<"prog">>
    /\ serialPort \in (IF variant = "gw06" THEN {NoPort, DefaultPort} ELSE {DefaultPort})
    /\ openable = IF serialPort = NoPort THEN {} ELSE {DefaultPort}
    /\ tried = <<>>
    \* ThreadedClient.__init__ sets running before it starts the thread
    /\ running = (variant = "tk05")
    \* FakeThread.__init__ sets the flag; Thread has no such attribute until
    \* run() or stop() assigns it, and nothing reads it before
    /\ is_running = FALSE
    /\ remote_is_running = FALSE
    /\ workerPc = CASE variant \in WorkerSignalVariants -> "start"
                     [] variant = "tk05" -> "while"
                     [] OTHER -> "none"
    /\ appPc = "exec"
    \* GuiPart.__init__ calls self.stop_button()
    /\ written = IF variant = "tk05" THEN <<StopCommand>> ELSE <<>>
    /\ presses = <<>>
    /\ sinceStop = 0

\* Thread.run / FakeThread.run, first statement: self.is_running = True
run_begin ==
    /\ variant \in WorkerSignalVariants
    /\ workerPc = "start"
    /\ is_running' = TRUE
    /\ workerPc' = "while"
    /\ UNCHANGED <<dataVars, openVars, running, remote_is_running, appPc, written,
                   presses, sinceStop>>

\* Thread.run / FakeThread.run: "while self.is_running" finds the flag false
run_exit ==
    /\ variant \in WorkerSignalVariants
    /\ workerPc = "while"
    /\ ~is_running
    /\ workerPc' = "done"
    /\ UNCHANGED <<dataVars, openVars, running, is_running, remote_is_running, appPc,
                   written, presses, sinceStop>>

\* FakeThread.run: "while self.is_running" finds the flag true; time.sleep(0.25)
FakeThread_sleep ==
    /\ IsFake
    /\ workerPc = "while"
    /\ is_running
    /\ workerPc' = "sleep"
    /\ UNCHANGED <<dataVars, openVars, running, is_running, remote_is_running, appPc,
                   written, presses, sinceStop>>

\* a worker that emits whether or not the board has been started
FakeThread_test_ungated ==
    /\ IsFake
    /\ workerPc = "sleep"
    /\ workerPc' = "emit"
    /\ UNCHANGED <<dataVars, openVars, running, is_running, remote_is_running, appPc,
                   written, presses, sinceStop>>

\* FakeThread.run: "if self.remote_is_running"
FakeThread_test ==
    /\ IsFake
    /\ workerPc = "sleep"
    /\ workerPc' = IF remote_is_running THEN "emit" ELSE "while"
    /\ UNCHANGED <<dataVars, openVars, running, is_running, remote_is_running, appPc,
                   written, presses, sinceStop>>

\* FakeThread.run: self.result.emit(x, y)
FakeThread_emit(xy) ==
    /\ IsFake
    /\ workerPc = "emit"
    /\ Len(pending) < MaxQueue
    /\ Len(appended) + Len(pending) < MaxReads
    /\ pending' = Append(pending, xy)
    /\ sinceStop' = IF sinceStop < 2 THEN sinceStop + 1 ELSE sinceStop
    /\ workerPc' = "while"
    /\ UNCHANGED <<variant, bufVars, sizeVars, drawVars, idleReplots, updatePending,
                   queue, guiPc, histVars, liveVars, ghostVars, openVars, running,
                   is_running, remote_is_running, appPc, written, presses>>

\* Thread.start_remote / FakeThread.start_remote, the slot of the START button
start_remote ==
    /\ variant \in WorkerSignalVariants
    /\ appPc = "exec"
    /\ Len(presses) < MaxPresses
    /\ IF IsFake
       THEN remote_is_running' = TRUE /\ UNCHANGED written
       ELSE written' = Append(written, StartCommand) /\ UNCHANGED remote_is_running
    /\ presses' = Append(presses, "START")
    /\ sinceStop' = 0
    /\ UNCHANGED <<dataVars, openVars, running, is_running, workerPc, appPc>>

\* Thread.stop_remote / FakeThread.stop_remote, the slot of the STOP button
stop_remote ==
    /\ variant \in WorkerSignalVariants
    /\ appPc = "exec"
    /\ Len(presses) < MaxPresses
    /\ IF IsFake
       THEN remote_is_running' = FALSE /\ UNCHANGED written
       ELSE written' = Append(written, StopCommand) /\ UNCHANGED remote_is_running
    /\ presses' = Append(presses, "STOP")
    /\ sinceStop' = 0
    /\ UNCHANGED <<dataVars, openVars, running, is_running, workerPc, appPc>>

\* Thread.stop / FakeThread.stop, the first slot of the Done button:
\* self.stop_remote(); self.is_running = False
stop ==
    /\ variant \in WorkerSignalVariants
    /\ appPc = "exec"
    /\ IF IsFake
       THEN remote_is_running' = FALSE /\ UNCHANGED written
       ELSE written' = Append(written, StopCommand) /\ UNCHANGED remote_is_running
    /\ is_running' = FALSE
    /\ appPc' = "stopping"
    /\ presses' = Append(presses, "Done")
    /\ sinceStop' = 0
    /\ UNCHANGED <<dataVars, openVars, running, workerPc>>

\* MainWindow.done_button, the second slot of the Done button:
\* QCoreApplication.quit()
done_button ==
    /\ variant \in WorkerSignalVariants
    /\ appPc = "stopping"
    /\ appPc' = "quit"
    /\ UNCHANGED <<dataVars, openVars, running, is_running, remote_is_running,
                   workerPc, written, presses, sinceStop>>

\* tk04 / tk05 start_button, the command of the START button
start_button ==
    /\ variant \in CachedSizeVariants
    /\ appPc = "exec"
    /\ guiPc = "idle"
    /\ Len(presses) < MaxPresses
    /\ written' = Append(written, StartCommand)
    /\ presses' = Append(presses, "START")
    /\ UNCHANGED <<dataVars, openVars, running, is_running, remote_is_running,
                   workerPc, appPc, sinceStop>>

\* a STOP button wired to the start command
stop_button_high ==
    /\ variant \in CachedSizeVariants
    /\ appPc = "exec"
    /\ guiPc = "idle"
    /\ Len(presses) < MaxPresses
    /\ written' = Append(written, StartCommand)
    /\ presses' = Append(presses, "STOP")
    /\ UNCHANGED <<dataVars, openVars, running, is_running, remote_is_running,
                   workerPc, appPc, sinceStop>>

\* tk04 / tk05 stop_button, the command of the STOP button
stop_button ==
    /\ variant \in CachedSizeVariants
    /\ appPc = "exec"
    /\ guiPc = "idle"
    /\ Len(presses) < MaxPresses
    /\ written' = Append(written, StopCommand)
    /\ presses' = Append(presses, "STOP")
    /\ UNCHANGED <<dataVars, openVars, running, is_running, remote_is_running,
                   workerPc, appPc, sinceStop>>

\* tk05 ThreadedClient.endApplication, the command of the Done button and of
\* the window's close box; a second press stores False again
endApplication ==
    /\ variant = "tk05"
    /\ appPc = "exec"
    /\ guiPc = "idle"
    /\ running
    /\ running' = FALSE
    /\ presses' = Append(presses, "Done")
    /\ sinceStop' = 0
    /\ UNCHANGED <<dataVars, openVars, is_running, remote_is_running, workerPc, appPc,
                   written>>

\* tk05 workerThread1: "while self.running"
workerThread1_while ==
    /\ variant = "tk05"
    /\ workerPc = "while"
    /\ workerPc' = IF running THEN "body" ELSE "done"
    /\ UNCHANGED <<dataVars, openVars, running, is_running, remote_is_running, appPc,
                   written, presses, sinceStop>>

\* tk05 workerThread1: "if self.serialPort.inWaiting() != 0" finds nothing
workerThread1_idle ==
    /\ variant = "tk05"
    /\ workerPc = "body"
    /\ workerPc' = "while"
    /\ UNCHANGED <<dataVars, openVars, running, is_running, remote_is_running, appPc,
                   written, presses, sinceStop>>

\* tk05 workerThread1: a line waits; readline() and self.queue.put(line)
workerThread1_put(line) ==
    /\ variant = "tk05"
    /\ workerPc = "body"
    /\ reads < MaxReads
    /\ Len(queue) < MaxQueue
    /\ reads' = reads + 1
    /\ framesRead' = FramesWith(line)
    /\ queue' = queue_put(queue, line)
    /\ queueSeq' = queue_put(queueSeq, reads + 1)
    /\ sinceStop' = IF running THEN sinceStop ELSE sinceStop + 1
    /\ workerPc' = "while"
    /\ UNCHANGED <<variant, bufVars, sizeVars, drawVars, idleReplots, updatePending,
                   pending, guiPc, appended, torn, lastOp, lastLine, lastXY,
                   liveVars, taken, repeated, openVars, running, is_running,
                   remote_is_running, appPc, written, presses>>

NextControl ==
    \/ \E line \in ControlLines : read_serial(line)
    \/ idle_replot
    \/ start_button
    \/ stop_button
    \/ endApplication
    \/ workerThread1_while
    \/ workerThread1_idle
    \/ \E line \in ControlLines : workerThread1_put(line)
    \/ periodicCall
    \/ processIncoming
    \/ processIncomingDone
    \/ run_begin
    \/ run_exit
    \/ \E line \in ControlLines : Thread_run(line)
    \/ FakeThread_sleep
    \/ FakeThread_test
    \/ \E xy \in FakeSamples : FakeThread_emit(xy)
    \/ start_remote
    \/ stop_remote
    \/ stop
    \/ done_button
    \/ append_data_slot
    \/ add_value_slot
    \/ paintEvent

SpecControl == InitControl /\ [][NextControl]_vars

(***************************************************************************)
(* C21  Worker shutdown: once stop() has returned, the worker's loop ends: *)
(* either run() has already left its loop or is_running is false, so that  *)
(* the next "while self.is_running" leaves it.  Nothing but run()'s first  *)
(* statement sets the flag and nothing but stop() clears it, so a state    *)
(* with stop() returned, the worker in its loop and the flag true is one   *)
(* from which the loop never ends.                                         *)
(***************************************************************************)
Stopped == appPc \in {"stopping", "quit"}

\* C21: once stop() has returned, run() has left its loop or is_running is
\* false, so that the next loop test ends the loop
C21_StopEndsRun ==
    (variant \in WorkerSignalVariants /\ Stopped) => (workerPc = "done" \/ ~is_running)

(***************************************************************************)
(* C23  Stop before quit: at the step that requests quit (done_button),    *)
(* with a Thread on a serial port, the last command written to the port is *)
(* the stop command and is_running is false.                               *)
(***************************************************************************)
Last(seq) == seq[Len(seq)]

QuitRequested == appPc # "quit" /\ appPc' = "quit"

\* C23: when quit is requested the stop command is the last command written
\* to the port and is_running is false
C23_StopBeforeQuit ==
    [][(QuitRequested /\ variant \in WorkerSignalVariants /\ ~IsFake)
         => (written # <<>> /\ Last(written) = StopCommand /\ ~is_running)]_vars

(***************************************************************************)
(* C24  FakeThread gating.  As claimed: no sample is emitted before the    *)
(* first start_remote(), at most one sample is emitted between a           *)
(* stop_remote() and the next start_remote(), and every sample is emitted  *)
(* while is_running is true.  The first two hold; the third does not:      *)
(* stop() may run between the test of remote_is_running and the emit.      *)
(* What holds instead is that stop(), which calls stop_remote(), is        *)
(* followed by at most one sample as well.                                 *)
(***************************************************************************)
\* the samples a FakeThread has emitted so far
FakeEmitted == Len(appended) + Len(pending)

FakeEmits == IsFake /\ workerPc = "emit" /\ workerPc' = "while"

\* C24 as amended: no sample before the first start_remote(), and at most
\* one sample after a stop_remote() or a stop() until the next start_remote()
C24_Gating ==
    IsFake =>
        /\ (\A i \in DOMAIN presses : presses[i] # "START") => FakeEmitted = 0
        /\ (presses # <<>> /\ RemoteStopped) => sinceStop <= 1

\* C24 as claimed: the above, and a sample is emitted only while is_running
C24_AsClaimed == [](C24_Gating) /\ [][FakeEmits => is_running]_vars

\* a sample has been emitted after stop_remote() returned
C24_Witness ==
    /\ IsFake
    /\ presses = <<"START", "STOP">>
    /\ sinceStop = 1
    /\ workerPc = "while"

(***************************************************************************)
(* C22  Shutdown of 05_threads_tkinter: once running is false the worker   *)
(* has put at most one more line on the queue; a periodicCall that ends    *)
(* while running is false has emptied the queue and terminates the process *)
(* (sys.exit); and the worker, once it has seen running false and left its *)
(* loop, puts nothing on the queue.                                        *)
(***************************************************************************)
PeriodicCallEnds == variant = "tk05" /\ guiPc = "processIncoming" /\ guiPc' = "idle"

\* C22: with running false at most one more line is put; a periodicCall that
\* ends then has emptied the queue and exits; a worker out of its loop puts
\* nothing
C22_Shutdown ==
    /\ []((variant = "tk05" /\ ~running) => sinceStop <= 1)
    /\ [][/\ (PeriodicCallEnds /\ ~running) => (queue' = <<>> /\ appPc' = "quit")
          /\ (variant = "tk05" /\ workerPc = "done") => Len(queue') <= Len(queue)]_vars

(***************************************************************************)
(* C28  Button commands.  As claimed: the commands written to the serial   *)
(* port are the START / STOP presses in order ("H\n" for START, "L\n" for  *)
(* STOP), and a press changes neither channel and posts or runs no replot. *)
(* The port receives two more stop commands, though: GuiPart.__init__ of   *)
(* 05_threads_tkinter sends one before any press, and the Done button of   *)
(* the Qt programs sends one through Thread.stop().                        *)
(***************************************************************************)
PressCommand(button) ==
    CASE button = "START" -> <<StartCommand>>
      [] button = "STOP" -> <<StopCommand>>
      [] OTHER -> <<>>

\* the commands a sequence of presses sends, Done sending the commands done
RECURSIVE WrittenBy(_, _)
WrittenBy(seq, done) ==
    IF seq = <<>> THEN <<>>
    ELSE (IF Head(seq) = "Done" THEN done ELSE PressCommand(Head(seq)))
         \o WrittenBy(Tail(seq), done)

Pressed == presses' # presses

PressKeepsPlot ==
    [][Pressed => UNCHANGED <<bufVars, drawVars, idleReplots, updatePending, pending,
                              queue, appended>>]_vars

BuiltinPorts == <<"/dev/tty.usbmodem14101", "/dev/tty.usbmodem14201",
                  "/dev/tty.usbmodem14103", "/dev/tty.usbmodem14203">>

\* command lines: no argument, a port, a port and a baud rate
CommandLines == {<<"prog">>, <<"prog", "COM9">>, <<"prog", "COM9", "115200">>,
                 <<"prog", "/dev/tty.usbmodem14201">>, <<"prog", "COM9", "fast">>}

AllPorts == {BuiltinPorts[i] : i \in DOMAIN BuiltinPorts} \cup {"COM9"}

\* int(args[2]) returns
IsInt(token) == token \in {"9600", "115200"}

NotCalled == "not called"

\* a loop that goes on after a port has opened and keeps the last one
RECURSIVE TryPortsAll(_, _, _)
TryPortsAll(ports, canOpen, before) ==
    IF ports = <<>>
    THEN [serialPort |-> IF \E i \in DOMAIN before : before[i] \in canOpen
                         THEN before[CHOOSE i \in DOMAIN before :
                                        /\ before[i] \in canOpen
                                        /\ \A j \in DOMAIN before :
                                              before[j] \in canOpen => j <= i]
                         ELSE NoPort,
          tried |-> before]
    ELSE TryPortsAll(Tail(ports), canOpen, Append(before, Head(ports)))

\* "for io_unit in ports": Serial(io_unit, ...) opens the port or raises
\* SerialException; "if serial_success: break"
RECURSIVE TryPorts(_, _, _)
TryPorts(ports, canOpen, before) ==
    IF ports = <<>>
    THEN [serialPort |-> NoPort, tried |-> before]
    ELSE IF Head(ports) \in canOpen
         THEN [serialPort |-> Head(ports), tried |-> Append(before, Head(ports))]
         ELSE TryPorts(Tail(ports), canOpen, Append(before, Head(ports)))

\* open_serial(args); args[1] and args[2] of the code are a[2] and a[3] here
open_serial(a, canOpen) ==
    LET ports == IF Len(a) > 1 THEN Append(BuiltinPorts, a[2]) ELSE BuiltinPorts
    IN IF Len(a) > 2 /\ ~IsInt(a[3])
       THEN [serialPort |-> "ValueError", tried |-> <<>>]
       ELSE TryPorts(ports, canOpen, <<>>)

InitOpen ==
    /\ InitData
    /\ CtlRest
    /\ variant = "gw06"
    /\ args \in CommandLines
    /\ openable \in SUBSET AllPorts
    /\ serialPort = NotCalled
    /\ tried = <<>>

\* main: serialPort = open_serial(args)
main_open_serial ==
    /\ serialPort = NotCalled
    /\ LET r == open_serial(args, openable)
       IN /\ serialPort' = r.serialPort
          /\ tried' = r.tried
    /\ UNCHANGED <<dataVars, ctlVars, args, openable>>

NextOpen == main_open_serial

SpecOpen == InitOpen /\ [][NextOpen]_vars

(***************************************************************************)
(* C25  open_serial tries the candidate ports in list order (the four      *)
(* built-in names, then the command-line port if one is given), returns    *)
(* the first port that opens and tries none after it, and returns None if  *)
(* and only if no candidate opens.                                         *)
(***************************************************************************)
Candidates == IF Len(args) > 1 THEN BuiltinPorts \o <<args[2]>> ELSE BuiltinPorts

Returned == serialPort \notin {NotCalled, "ValueError"}

\* C25: open_serial tries the candidates in order, stops at the first that
\* opens and returns it, and returns None exactly when none opens
C25_OpenSerial ==
    Returned =>
        /\ Len(tried) <= Len(Candidates)
        /\ tried = SubSeq(Candidates, 1, Len(tried))
        /\ \A i \in 1..(Len(tried) - 1) : tried[i] \notin openable
        /\ serialPort # NoPort => (tried # <<>> /\ serialPort = Last(tried)
                                    /\ serialPort \in openable)
        /\ serialPort = NoPort <=> (\A i \in DOMAIN Candidates : Candidates[i] \notin openable)
        /\ serialPort = NoPort => tried = Candidates

\* the second built-in port opened although the fourth would open as well
C25_Witness ==
    /\ serialPort = BuiltinPorts[2]
    /\ BuiltinPorts[4] \in openable
    /\ tried = <<BuiltinPorts[1], BuiltinPorts[2]>>

(***************************************************************************)
(* The programs of Spec under an event loop that keeps running: SpecLive.  *)
(* Tk runs a posted idle callback once the handlers that are due have run  *)
(* (timers may fire in between, hence strong fairness), Qt delivers a      *)
(* posted paint event, and a handler that has been entered runs on.  The   *)
(* lines read are a frame, a line whose second field is not a number and a *)
(* line that is not ASCII.                                                 *)
(***************************************************************************)
LiveLines == {<<"WOG", "0.5", "-2.75">>} \cup BadField2Lines \cup NonAsciiLines

NextLive ==
    \/ \E line \in LiveLines : read_serial(line)
    \/ \E line \in LiveLines : workerThread1(line)
    \/ periodicCall
    \/ processIncoming
    \/ processIncomingDone
    \/ \E line \in LiveLines : Thread_run(line)
    \/ append_data_slot
    \/ add_value_slot
    \/ idle_replot
    \/ \E size \in CanvasSizes : on_resize(size)
    \/ \E size \in CanvasSizes : resizeEvent(size)
    \/ expose
    \/ paintEvent

EventLoopRuns ==
    /\ SF_vars(idle_replot)
    /\ WF_vars(paintEvent)
    /\ WF_vars(processIncoming)
    /\ WF_vars(processIncomingDone)

SpecLive == Init /\ [][NextLive]_vars /\ EventLoopRuns

(***************************************************************************)
(* C26  Every append is eventually drawn: right after a completed append a *)
(* replot request is pending (an idle callback in the tkinter programs, a  *)
(* paint event for GraphWidget) or the render has already run (MainWindow, *)
(* whose replot signal is delivered at once), and a render of the buffer   *)
(* follows every completed append.                                         *)
(***************************************************************************)
ReplotPending ==
    CASE variant \in TkVariants -> idleReplots > 0
      [] variant = "gw06" -> updatePending
      [] OTHER -> FALSE

\* a step that takes a replot request away
RequestTaken ==
    \/ idleReplots' < idleReplots
    \/ updatePending /\ ~updatePending'

\* C26: an append leaves a replot request (or has rendered), a request goes
\* away only by a render, and every append is followed by a render
C26_AppendIsDrawn ==
    /\ [](JustAppended => (JustRendered \/ ReplotPending))
    /\ [][RequestTaken => lastOp' = "render"]_vars
    /\ (JustAppended ~> JustRendered)

\* a render has run after an append, and no request is left
C26_Witness ==
    /\ variant \in {"tk02", "gw06"}
    /\ lastOp = "render"
    /\ appended # <<>>
    /\ ~ReplotPending
    /\ Line1[npoints] = lastXY[1]

(***************************************************************************)
(* C27  A render uses the canvas's current size: in the programs that      *)
(* cache the size (tk04, tk05), right after every render the cached width  *)
(* and half height are the canvas's width and height / 2, the half height  *)
(* the render used is height / 2 and the X positions it drew are           *)
(* width * i / npoints.                                                    *)
(***************************************************************************)
\* C27: right after a render of tk04 / tk05 the cached size, the half height
\* used and the X positions drawn are those of the canvas's current size
C27_RenderUsesCurrentSize ==
    (JustRendered /\ variant \in CachedSizeVariants) =>
        /\ canvasWidth = width
        /\ RatEq(canvasHalfHeight, <<height, 2>>)
        /\ RatEq(used_hh, <<height, 2>>)
        /\ \A i \in 1..npoints :
              /\ RatEq(coordsX[i][1], <<width * (i - 1), npoints>>)
              /\ RatEq(coordsY[i][1], <<width * (i - 1), npoints>>)

\* appended samples have been drawn twice on the canvas resized to 9 x 5
C27_Witness ==
    /\ variant \in CachedSizeVariants
    /\ lastOp = "render"
    /\ repeated
    /\ appended # <<>>
    /\ width = 9 /\ height = 5
    /\ RatEq(used_hh, <<5, 2>>)

(***************************************************************************)
(* C29  Channel pairing, tkinter programs: entry i of channel A and entry  *)
(* i of channel B are the x and the y of the same completed append, or     *)
(* both are initial zeros: the two channels, read as pairs, are the newest *)
(* npoints of the zero pairs followed by the appended frames.              *)
(***************************************************************************)
Pairs == [i \in 1..npoints |-> <<Line1[i], Line2[i]>>]

\* C29: in the tkinter programs the channels, read as pairs, are the newest
\* npoints of the zero pairs followed by the completed appends
C29_ChannelsPaired ==
    variant \in TkVariants =>
        Pairs = Newest([i \in 1..npoints |-> <<0, 0>>] \o appended, npoints)
====
